---- MODULE Spec2Model ----
(***************************************************************************)
(* The handler-registration engine of hammett's Application class.         *)
(*                                                                         *)
(* Two implementations are modelled side by side:                          *)
(*   impl = "application" : hammett/core/application.py (member reflection)*)
(*   impl = "legacy"      : hammett/core/__init__.py    (keyboard buttons) *)
(*                                                                         *)
(* Construction is modelled stepwise: one step per loop iteration of       *)
(* __init__ / _register_handlers, so that the state table can be observed  *)
(* between two appends and at the point where an exception leaves it.      *)
(***************************************************************************)
EXTENDS Integers, Sequences, FiniteSets, TLC

(***************************************************************************)
(* Bounds of the model.                                                    *)
(***************************************************************************)
\* Screen classes listed over the whole `states` mapping (all states together).
MaxScreens == 2
\* Application objects constructed, one after the other, from the same arguments.
MaxRuns == 2

(***************************************************************************)
(* Domains.                                                                *)
(***************************************************************************)
\* Conversation states: the keys of the state table.
StateIds == {1, 2, 3}
\* States that the caller declares as keys of the `states` mapping; state 3 is
\* only ever reached through a route.
DeclarableStates == {1, 2}
\* Permission policies, named by their CLASS_UUID.
Policies == {"P", "Q"}

\* hammett.types.HandlerType members; "" is the value the reflection reads when
\* a member has no handler_type attribute; "weird" is a value outside the enum.
BUTTON_HANDLER == "button"
COMMAND_HANDLER == "command"
INPUT_HANDLER == "input"
TYPING_HANDLER == "typing"
UNSET == ""
WEIRD == "weird"

\* self._route_handlers and self._builtin_handlers, application.py:60-61.
route_handlers == {"sgoto", "sjump"}
builtin_handlers == {"goto", "jump", "start"} \cup route_handlers

\* button.source_type values, hammett.core.constants.SourcesTypes.
GOTO_SOURCE_TYPE == "GOTO"
HANDLER_SOURCE_TYPE == "HANDLER"
URL_SOURCE_TYPE == "URL"

\* Member names in the order dir() lists them (dir() sorts alphabetically).
AllNames == <<"go", "goto", "help", "helper", "hit", "note", "sgoto", "sjump", "start", "type">>

NameRank(n) == CHOOSE i \in 1..Len(AllNames) : AllNames[i] = n

(***************************************************************************)
(* The declared screen classes.  A member is what getattr(instance, name)  *)
(* returns: the attributes the registration reads from it.                 *)
(***************************************************************************)
NoText == << >>

Member(name, htype, cmd, flt, ign) ==
    [name |-> name, handler_type |-> htype, command_name |-> cmd,
     filters |-> flt, permissions_ignored |-> ign]

\* A bound method of a screen instance: the member plus the class it belongs to.
Bound(cls, m) ==
    [cls |-> cls, name |-> m.name, handler_type |-> m.handler_type,
     command_name |-> m.command_name, filters |-> m.filters,
     permissions_ignored |-> m.permissions_ignored]

NoMember == Member("", UNSET, NoText, "", {})
NoHandler == Bound("", NoMember)

Route(states) == [states |-> states]

Btn(stype, cls, name, ign) ==
    [source_type |-> stype,
     source |-> IF stype = GOTO_SOURCE_TYPE
                THEN Bound(cls, Member("", UNSET, NoText, "", ign))
                ELSE Bound(cls, Member(name, UNSET, NoText, "", ign)),
     source_goto |-> IF stype = GOTO_SOURCE_TYPE
                     THEN Bound(cls, Member("goto", UNSET, NoText, "", {}))
                     ELSE NoHandler]

ClassNames == {"Menu", "Route", "Jump", "Broken", "Misc"}

\* dir(instance): the member names, sorted.
RECURSIVE SortByName(_)
SortByName(ms) ==
    IF ms = {} THEN << >>
    ELSE LET first == CHOOSE m \in ms : \A o \in ms : NameRank(m.name) <= NameRank(o.name)
         IN <<first>> \o SortByName(ms \ {first})

\* The buttons of obj.setup_keyboard() in the order of the two nested loops.
RECURSIVE Flatten(_)
Flatten(rows) == IF rows = << >> THEN << >> ELSE Head(rows) \o Flatten(Tail(rows))

Declared(members, routes, keyboard) ==
    [members |-> SortByName(members), routes |-> routes, keyboard |-> keyboard,
     buttons |-> Flatten(keyboard)]

ScreenClasses ==
    [c \in ClassNames |->
       CASE c = "Menu" ->
              Declared({Member("go", BUTTON_HANDLER, NoText, "", {}),
                        Member("help", COMMAND_HANDLER, <<"h", "i">>, "", {}),
                        Member("helper", UNSET, NoText, "", {})},
                       << >>,
                       << <<Btn(HANDLER_SOURCE_TYPE, "Menu", "go", {}),
                            Btn(URL_SOURCE_TYPE, "Menu", "", {})>>,
                          <<Btn(GOTO_SOURCE_TYPE, "Route", "", {"P"})>> >>)
         [] c = "Route" ->
              Declared({Member("note", WEIRD, NoText, "", {}),
                        Member("sgoto", UNSET, NoText, "", {}),
                        Member("start", UNSET, NoText, "", {"P"})},
                       <<Route(<<2, 3>>), Route(<<3>>)>>,
                       << << >>, <<Btn(GOTO_SOURCE_TYPE, "Menu", "", {})>> >>)
         [] c = "Jump" ->
              Declared({Member("goto", UNSET, NoText, "", {"Q"}),
                        Member("hit", COMMAND_HANDLER, <<"h", "i", "t">>, "", {}),
                        Member("sjump", BUTTON_HANDLER, NoText, "", {}),
                        Member("type", TYPING_HANDLER, NoText, "", {"P"})},
                       << >>,
                       << <<Btn(HANDLER_SOURCE_TYPE, "Jump", "hit", {"P", "Q"})>>,
                          <<Btn(HANDLER_SOURCE_TYPE, "Jump", "go", {"Q"})>> >>)
         [] c = "Broken" ->
              Declared({Member("goto", UNSET, NoText, "", {}),
                        Member("help", INPUT_HANDLER, NoText, "PHOTO", {}),
                        Member("start", WEIRD, NoText, "", {})},
                       << >>,
                       << >>)
         [] c = "Misc" ->
              Declared({Member("helper", UNSET, NoText, "", {}),
                        Member("note", WEIRD, NoText, "", {})},
                       <<Route(<<1>>)>>,
                       << <<Btn(URL_SOURCE_TYPE, "Misc", "", {})>> >>)]

ScreenClass(c) == ScreenClasses[c]
Dir(c) == ScreenClasses[c].members
Buttons(c) == ScreenClasses[c].buttons

(***************************************************************************)
(* Handlers, callables and handler objects.                                *)
(***************************************************************************)
\* The fully-qualified identity of a handler: its class and its name.
Identity(h) == [cls |-> h.cls, name |-> h.name]

\* A callable as the dispatcher sees it: the handler that finally runs and the
\* policies whose check runs before it, innermost first.
Raw(h) == [handler |-> Identity(h), wraps |-> << >>]

\* policy.check_permission(callable): the callable behind one more check.
CheckPermission(policy, callable) == [callable EXCEPT !.wraps = Append(@, policy)]

\* hammett.core.permissions.apply_permission_to: folds the configured policies,
\* in order, over the handler; a policy in the handler's permissions_ignored
\* set is left out.
RECURSIVE FoldPermissions(_, _, _)
FoldPermissions(perms, ignored, callable) ==
    IF perms = << >> THEN callable
    ELSE FoldPermissions(Tail(perms), ignored,
                         IF Head(perms) \in ignored THEN callable
                         ELSE CheckPermission(Head(perms), callable))

ApplyPermissionTo(perms, h) == FoldPermissions(perms, h.permissions_ignored, Raw(h))

\* Number of distinct identifiers a fixed-length checksum can take.
IdentifierSpace == 16

ClassRank(c) ==
    CASE c = "Menu" -> 0 [] c = "Route" -> 1 [] c = "Jump" -> 2
      [] c = "Broken" -> 3 [] c = "Misc" -> 4 [] OTHER -> 5

\* hammett.core.handlers.calc_checksum: a deterministic, fixed-length digest of
\* the handler's qualified identity.
CalcChecksum(h) == (ClassRank(h.cls) * Len(AllNames) + NameRank(h.name)) % IdentifierSpace

\* The matching rule of a handler object.
\*   "checksum"         CallbackQueryHandler pattern = checksum
\*   "payload"          CallbackQueryHandler pattern = ^checksum DELIMITER (.*)$
\*   "command_regex"    filters.COMMAND & filters.Regex('^/' + command)
\*   "filters"          the member's own filters
\*   "text_not_command" filters.TEXT & ~filters.COMMAND
Rule(type, checksum, command, flt) ==
    [type |-> type, checksum |-> checksum, command |-> command, filters |-> flt]

CallbackQueryHandler(callback, pattern) ==
    [kind |-> "CallbackQueryHandler", callback |-> callback, pattern |-> pattern]

MessageHandler(flt, callback) ==
    [kind |-> "MessageHandler", callback |-> callback, pattern |-> flt]

Built(object) == [raised |-> FALSE, object |-> object]
UnknownHandlerType == [raised |-> TRUE, object |-> CallbackQueryHandler(Raw(NoHandler), Rule("", 0, NoText, ""))]

\* A _get_handler_object whose last branch builds a button handler instead of
\* raising.
GetHandlerObjectWithoutRaise(perms, handler, handler_type, possible_handler) ==
    IF handler_type = COMMAND_HANDLER
    THEN Built(MessageHandler(Rule("command_regex", 0, possible_handler.command_name, ""),
                              Raw(handler)))
    ELSE IF handler_type = INPUT_HANDLER
    THEN Built(MessageHandler(Rule("filters", 0, NoText, possible_handler.filters),
                              Raw(handler)))
    ELSE IF handler_type = TYPING_HANDLER
    THEN Built(MessageHandler(Rule("text_not_command", 0, NoText, ""), Raw(handler)))
    ELSE Built(CallbackQueryHandler(ApplyPermissionTo(perms, handler),
                                    Rule("checksum", CalcChecksum(handler), NoText, "")))

\* A _get_handler_object that takes the checksum of the permission wrapper,
\* which is another function for every policy wrapped around the handler.
GetHandlerObjectChecksumOfWrapper(perms, handler, handler_type, possible_handler) ==
    IF handler_type \in {BUTTON_HANDLER, UNSET}
    THEN LET wrapped == ApplyPermissionTo(perms, handler)
         IN Built(CallbackQueryHandler(wrapped,
                     Rule("checksum",
                          (CalcChecksum(handler) + Len(wrapped.wraps)) % IdentifierSpace,
                          NoText, "")))
    ELSE IF handler_type = COMMAND_HANDLER
    THEN Built(MessageHandler(Rule("command_regex", 0, possible_handler.command_name, ""),
                              Raw(handler)))
    ELSE IF handler_type = INPUT_HANDLER
    THEN Built(MessageHandler(Rule("filters", 0, NoText, possible_handler.filters),
                              Raw(handler)))
    ELSE IF handler_type = TYPING_HANDLER
    THEN Built(MessageHandler(Rule("text_not_command", 0, NoText, ""), Raw(handler)))
    ELSE UnknownHandlerType

\* Application._get_handler_object
GetHandlerObject(perms, handler, handler_type, possible_handler) ==
    IF handler_type \in {BUTTON_HANDLER, UNSET}
    THEN Built(CallbackQueryHandler(ApplyPermissionTo(perms, handler),
                                    Rule("checksum", CalcChecksum(handler), NoText, "")))
    ELSE IF handler_type = COMMAND_HANDLER
    THEN Built(MessageHandler(Rule("command_regex", 0, possible_handler.command_name, ""),
                              Raw(handler)))
    ELSE IF handler_type = INPUT_HANDLER
    THEN Built(MessageHandler(Rule("filters", 0, NoText, possible_handler.filters),
                              Raw(handler)))
    ELSE IF handler_type = TYPING_HANDLER
    THEN Built(MessageHandler(Rule("text_not_command", 0, NoText, ""), Raw(handler)))
    ELSE UnknownHandlerType

\* A test that takes every member with a handler_type tag for a handler.
QualifiesAnyTag(name, possible_handler_type) ==
    \/ name \in builtin_handlers
    \/ possible_handler_type # UNSET

\* The test of application.py:170-173: does the member become a handler?
Qualifies(name, possible_handler_type) ==
    \/ name \in builtin_handlers
    \/ possible_handler_type \in {BUTTON_HANDLER, COMMAND_HANDLER, INPUT_HANDLER, TYPING_HANDLER}

(***************************************************************************)
(* Matching an inbound text message against a command rule.                *)
(***************************************************************************)
IsPrefix(p, t) == Len(p) <= Len(t) /\ SubSeq(t, 1, Len(p)) = p

\* Characters a bot command name is made of.
CommandChars == {"h", "i", "t"}

\* filters.COMMAND: the message starts with a bot command, "/" and a name.
FiltersCommand(text) == Len(text) >= 2 /\ text[1] = "/" /\ text[2] \in CommandChars

\* The name of the command a command message starts with: the characters
\* after "/" up to the first one that is no command character.
RECURSIVE NameRun(_)
NameRun(t) ==
    IF t = << >> \/ Head(t) \notin CommandChars THEN << >>
    ELSE <<Head(t)>> \o NameRun(Tail(t))

CommandName(text) == NameRun(Tail(text))

\* filters.Regex(f'^/{command_name}'): re.search with a pattern that is anchored
\* at the start of the text and not at its end.
RegexSearch(command_name, text) == IsPrefix(<<"/">> \o command_name, text)

\* filters.COMMAND & filters.Regex(...), application.py:107.
Accepts(rule, text) ==
    /\ rule.type = "command_regex"
    /\ FiltersCommand(text)
    /\ RegexSearch(rule.command, text)

(***************************************************************************)
(* The state table.                                                        *)
(***************************************************************************)
EmptyTable == << >>

\* A _set_default_value_to_native_states that creates no entry.
SetDefaultSkipped(table, state) == table

\* A default that empties the state's list when the key is there already.
SetDefaultReset(table, state) ==
    [s \in DOMAIN table \cup {state} |-> IF s = state THEN << >> ELSE table[s]]

\* Application._set_default_value_to_native_states
SetDefault(table, state) ==
    IF state \in DOMAIN table THEN table
    ELSE [s \in DOMAIN table \cup {state} |-> IF s = state THEN << >> ELSE table[s]]

\* An insertion at the head of the state's list instead of its end.
InsertFirst(table, state, object) == [table EXCEPT ![state] = <<object>> \o @]

\* self._native_states[state].append(handler_object).  Every caller has created
\* the key before (SetDefault), so the KeyError of a missing key does not arise.
AppendTo(table, state, object) == [table EXCEPT ![state] = Append(@, object)]

\* application.py:183-187: the two nested loops over routes and route states.
RECURSIVE FanOutStates(_, _, _)
FanOutStates(table, states, object) ==
    IF states = << >> THEN table
    ELSE FanOutStates(AppendTo(SetDefault(table, Head(states)), Head(states), object),
                      Tail(states), object)

RECURSIVE FanOut(_, _, _)
FanOut(table, routes, object) ==
    IF routes = << >> THEN table
    ELSE FanOut(FanOutStates(table, Head(routes).states, object), Tail(routes), object)

\* A placement that keeps the route handler at the declaring state as well.
PlaceAlsoAtDeclaringState(table, state, name, routes, object) ==
    IF name \in route_handlers /\ routes # << >>
    THEN AppendTo(SetDefault(FanOut(table, routes, object), state), state, object)
    ELSE AppendTo(table, state, object)

\* application.py:182-189: where the handler object of a member goes.
Place(table, state, name, routes, object) ==
    IF name \in route_handlers /\ routes # << >>
    THEN FanOut(table, routes, object)
    ELSE AppendTo(table, state, object)

(***************************************************************************)
(* State.                                                                  *)
(***************************************************************************)
VARIABLES
    impl,           \* which Application class is constructed
    settings,       \* hammett.conf.settings: TOKEN (set or not), PERMISSIONS
    args,           \* the arguments of Application(...): states, native_states
    callerStates,   \* the caller's native_states mapping object
    nativeStates,   \* self._native_states, the state table
    aliased,        \* self._native_states is the caller's object
    pc,             \* where construction stands
    si, ci, mi,     \* loop positions: state item, screen, member / button
    instantiated,   \* screens instantiated so far
    installed,      \* the ConversationHandler was added to the native application
    mode,           \* delivery mode run() selected
    runs,           \* Application objects constructed so far
    logged,         \* members handed to log_unregistered_handler
    screenStart,    \* the state table when the current screen was instantiated
    passTables,     \* the state table at the end of each completed construction
    source_wrapped, \* button.source_wrapped of the button registered last
    wrappedWrites,  \* assignments to button.source_wrapped for that button
    origin          \* for every entry of the state table, the loop positions
                    \* at which it was appended

vars == <<impl, settings, args, callerStates, nativeStates, aliased, pc, si, ci, mi,
          instantiated, installed, mode, runs, logged, screenStart, passTables,
          source_wrapped, wrappedWrites, origin>>

\* A handler object the caller registered itself in native_states.
NativeEntry ==
    CallbackQueryHandler(Raw(Bound("native", NoMember)), Rule("native", 0, NoText, ""))

NativeStatesArgs == {EmptyTable, (1 :> <<NativeEntry>>)}

\* settings.PERMISSIONS: the policies in the configured order, none twice.
PermissionLists ==
    {p \in UNION {[1..n -> Policies] : n \in 0..Cardinality(Policies)} :
        \A i, j \in DOMAIN p : i # j => p[i] # p[j]}

ScreenLists == UNION {[1..n -> ClassNames] : n \in 0..MaxScreens}

RECURSIVE TotalScreens(_)
TotalScreens(m) == IF m = << >> THEN 0 ELSE Len(Head(m).screens) + TotalScreens(Tail(m))

\* The `states` argument: (state, screens) items in the mapping's order, every
\* state at most once.  None and {} are both the empty sequence.
StatesArgs ==
    {m \in UNION {[1..k -> [state : DeclarableStates, screens : ScreenLists]] :
                    k \in 0..Cardinality(DeclarableStates)} :
        /\ \A i, j \in DOMAIN m : i # j => m[i].state # m[j].state
        /\ TotalScreens(m) <= MaxScreens}

NotWrapped == Raw(NoHandler)

\* The origin of an entry the caller put into native_states itself.
NoOrigin == [run |-> 0, si |-> 0, ci |-> 0, mi |-> 0]

Init ==
    /\ impl \in {"application", "legacy"}
    /\ settings \in [TOKEN : BOOLEAN, PERMISSIONS : PermissionLists]
    /\ args \in [states : StatesArgs, native_states : NativeStatesArgs]
    /\ callerStates = args.native_states
    /\ nativeStates = EmptyTable
    /\ aliased = FALSE
    /\ pc = "new"
    /\ si = 0 /\ ci = 0 /\ mi = 0
    /\ instantiated = 0
    /\ installed = FALSE
    /\ mode = "none"
    /\ runs = 1
    /\ logged = << >>
    /\ screenStart = EmptyTable
    /\ passTables = << >>
    /\ source_wrapped = NotWrapped
    /\ wrappedWrites = 0
    /\ origin = [s \in DOMAIN args.native_states |->
                   [k \in DOMAIN args.native_states[s] |-> NoOrigin]]

\* The (state, screens) item and the screen class the loops stand at.
Item == args.states[si]
Screen == Item.screens[ci]

\* The construction and the positions of the three nested loops
\* (states.items(), screens, dir(instance) or the keyboard's buttons).
Here == [run |-> runs, si |-> si, ci |-> ci, mi |-> mi]

\* A write to self._native_states reaches the caller's mapping when both are
\* the same object.
Write(table) ==
    /\ nativeStates' = table
    /\ callerStates' = IF aliased THEN table ELSE callerStates

(***************************************************************************)
(* Application.__init__, up to the registration loop.                      *)
(***************************************************************************)
\* An __init__ that does not look at settings.TOKEN.
ConstructWithoutTokenCheck ==
    /\ pc = "new"
    /\ instantiated' = instantiated + 1
    /\ aliased' = (callerStates # EmptyTable)
    /\ nativeStates' = IF callerStates # EmptyTable THEN callerStates ELSE EmptyTable
    /\ UNCHANGED callerStates
    /\ si' = 1
    /\ pc' = "states"
    /\ UNCHANGED <<impl, settings, args, ci, mi, installed, mode, runs, logged,
                   screenStart, passTables, source_wrapped, wrappedWrites, origin>>

\* application.py:53-75 and __init__.py:49-69.
Construct ==
    /\ pc = "new"
    /\ IF ~settings.TOKEN
       THEN /\ pc' = "token_failed"
            /\ UNCHANGED <<nativeStates, callerStates, aliased, si, instantiated>>
       ELSE /\ instantiated' = instantiated + 1
            /\ aliased' = (callerStates # EmptyTable)
            /\ nativeStates' = IF callerStates # EmptyTable THEN callerStates ELSE EmptyTable
            /\ UNCHANGED callerStates
            /\ si' = 1
            /\ pc' = "states"
    /\ UNCHANGED <<impl, settings, args, ci, mi, installed, mode, runs, logged,
                   screenStart, passTables, source_wrapped, wrappedWrites, origin>>

\* _register_handlers is entered for the next item of states.items():
\* application.py:74-75, 155-156 and __init__.py:68-69, 82-85.
RegisterState ==
    /\ pc = "states"
    /\ si <= Len(args.states)
    /\ Write(SetDefault(nativeStates, Item.state))
    /\ origin' = SetDefault(origin, Item.state)
    /\ ci' = 1
    /\ pc' = "screens"
    /\ UNCHANGED <<impl, settings, args, aliased, si, mi, instantiated, installed, mode,
                   runs, logged, screenStart, passTables, source_wrapped, wrappedWrites>>

\* instance = screen(): application.py:158-159 and __init__.py:87-88.
InstantiateScreen ==
    /\ pc = "screens"
    /\ ci <= Len(Item.screens)
    /\ instantiated' = instantiated + 1
    /\ screenStart' = nativeStates
    /\ mi' = 1
    /\ pc' = "members"
    /\ UNCHANGED <<impl, settings, args, callerStates, nativeStates, aliased, si, ci,
                   installed, mode, runs, logged, passTables, source_wrapped,
                   wrappedWrites, origin>>

\* The loop over the screens is exhausted: _register_handlers returns.
ReturnFromRegister ==
    /\ pc = "screens"
    /\ ci > Len(Item.screens)
    /\ si' = si + 1
    /\ pc' = "states"
    /\ UNCHANGED <<impl, settings, args, callerStates, nativeStates, aliased, ci, mi,
                   instantiated, installed, mode, runs, logged, screenStart, passTables,
                   source_wrapped, wrappedWrites, origin>>

(***************************************************************************)
(* application.py: one iteration of `for name in dir(instance)`.           *)
(***************************************************************************)
Members == Dir(Screen)
possible_handler == Bound(Screen, Members[mi])

\* application.py:176-178: the member is no handler; it is logged and skipped.
LogUnregistered ==
    /\ ~Qualifies(possible_handler.name, possible_handler.handler_type)
    /\ logged' = Append(logged, Identity(possible_handler))
    /\ mi' = mi + 1
    /\ UNCHANGED <<nativeStates, callerStates, pc, origin>>

\* application.py:180, 120-121: _get_handler_object raises UnknownHandlerType,
\* which leaves _register_handlers and __init__.
RaiseUnknownHandlerType ==
    /\ Qualifies(possible_handler.name, possible_handler.handler_type)
    /\ GetHandlerObject(settings.PERMISSIONS, possible_handler,
                        possible_handler.handler_type, possible_handler).raised
    /\ pc' = "unknown_type_failed"
    /\ UNCHANGED <<nativeStates, callerStates, mi, logged, origin>>

\* application.py:180-189: the handler object is built and appended.
AppendHandlerObject ==
    /\ Qualifies(possible_handler.name, possible_handler.handler_type)
    /\ LET built == GetHandlerObject(settings.PERMISSIONS, possible_handler,
                                     possible_handler.handler_type, possible_handler)
       IN /\ ~built.raised
          /\ Write(Place(nativeStates, Item.state, possible_handler.name,
                         ScreenClass(Screen).routes, built.object))
    /\ origin' = Place(origin, Item.state, possible_handler.name,
                       ScreenClass(Screen).routes, Here)
    /\ mi' = mi + 1
    /\ UNCHANGED <<pc, logged>>

\* application.py:160-189.
RegisterMember ==
    /\ impl = "application"
    /\ pc = "members"
    /\ mi <= Len(Members)
    /\ \/ LogUnregistered
       \/ RaiseUnknownHandlerType
       \/ AppendHandlerObject
    /\ UNCHANGED <<impl, settings, args, aliased, si, ci, instantiated, installed, mode,
                   runs, screenStart, passTables, source_wrapped, wrappedWrites>>

(***************************************************************************)
(* __init__.py: one iteration of `for button in buttons_row`.              *)
(***************************************************************************)
\* __init__.py:100-109: the loop over settings.PERMISSIONS.  Returns the
\* button's source_wrapped slot and the number of assignments to it.
RECURSIVE PermissionLoop(_, _, _, _)
PermissionLoop(perms, permissions_ignored, source, slot) ==
    IF perms = << >> THEN slot
    ELSE PermissionLoop(Tail(perms), permissions_ignored, source,
                        IF Head(perms) \in permissions_ignored THEN slot
                        ELSE [value |-> CheckPermission(Head(perms), Raw(source)),
                              writes |-> slot.writes + 1])

\* __init__.py:95-98.
SourceOf(button) ==
    IF button.source_type = GOTO_SOURCE_TYPE THEN button.source_goto ELSE button.source

\* hammett.core.screen.Button.create_handler_pattern, wrapped into
\* '^' pattern PAYLOAD_DELIMITER '(.*)$' by __init__.py:113-115.
PayloadPattern(source) == Rule("payload", CalcChecksum(source), NoText, "")

\* __init__.py:111-116: button.source_wrapped or source.
WrappedOr(slot, source) == IF slot.value # NotWrapped THEN slot.value ELSE Raw(source)

LegacyButtons == Buttons(Screen)

\* A loop that leaves the keyboard at the first button that is neither GOTO
\* nor HANDLER instead of going on to the next one.
RegisterButtonOrBreak ==
    /\ impl = "legacy"
    /\ pc = "members"
    /\ mi <= Len(LegacyButtons)
    /\ LET button == LegacyButtons[mi]
           source == SourceOf(button)
           slot == PermissionLoop(settings.PERMISSIONS, button.source.permissions_ignored,
                                  source, [value |-> NotWrapped, writes |-> 0])
       IN IF button.source_type \notin {GOTO_SOURCE_TYPE, HANDLER_SOURCE_TYPE}
          THEN /\ mi' = Len(LegacyButtons) + 1
               /\ UNCHANGED <<nativeStates, callerStates, source_wrapped, wrappedWrites,
                              origin>>
          ELSE /\ mi' = mi + 1
               /\ source_wrapped' = slot.value
               /\ origin' = AppendTo(origin, Item.state, Here)
               /\ wrappedWrites' = slot.writes
               /\ Write(AppendTo(nativeStates, Item.state,
                                 CallbackQueryHandler(WrappedOr(slot, source),
                                                      PayloadPattern(source))))
    /\ UNCHANGED <<impl, settings, args, aliased, pc, si, ci, instantiated, installed,
                   mode, runs, logged, screenStart, passTables>>

\* __init__.py:90-116.  The button comes fresh from setup_keyboard(): its
\* source_wrapped slot is empty when the permission loop starts.
RegisterButton ==
    /\ impl = "legacy"
    /\ pc = "members"
    /\ mi <= Len(LegacyButtons)
    /\ LET button == LegacyButtons[mi]
           source == SourceOf(button)
           slot == PermissionLoop(settings.PERMISSIONS, button.source.permissions_ignored,
                                  source, [value |-> NotWrapped, writes |-> 0])
       IN IF button.source_type \notin {GOTO_SOURCE_TYPE, HANDLER_SOURCE_TYPE}
          THEN UNCHANGED <<nativeStates, callerStates, source_wrapped, wrappedWrites,
                           origin>>
          ELSE /\ source_wrapped' = slot.value
               /\ origin' = AppendTo(origin, Item.state, Here)
               /\ wrappedWrites' = slot.writes
               /\ Write(AppendTo(nativeStates, Item.state,
                                 CallbackQueryHandler(WrappedOr(slot, source),
                                                      PayloadPattern(source))))
    /\ mi' = mi + 1
    /\ UNCHANGED <<impl, settings, args, aliased, pc, si, ci, instantiated, installed,
                   mode, runs, logged, screenStart, passTables>>

\* The loop over the members (the buttons) of the screen is exhausted.
NextScreen ==
    /\ pc = "members"
    /\ mi > (IF impl = "application" THEN Len(Members) ELSE Len(LegacyButtons))
    /\ ci' = ci + 1
    /\ pc' = "screens"
    /\ UNCHANGED <<impl, settings, args, callerStates, nativeStates, aliased, si, mi,
                   instantiated, installed, mode, runs, logged, screenStart, passTables,
                   source_wrapped, wrappedWrites, origin>>

(***************************************************************************)
(* The end of __init__, and run().                                         *)
(***************************************************************************)
\* An __init__ that adds the ConversationHandler ahead of the registration loop.
InstallBeforeRegistration ==
    /\ pc = "states"
    /\ \/ /\ ~installed
          /\ installed' = TRUE
          /\ UNCHANGED <<pc, passTables>>
       \/ /\ installed
          /\ si > Len(args.states)
          /\ passTables' = Append(passTables, nativeStates)
          /\ pc' = "ready"
          /\ UNCHANGED installed
    /\ UNCHANGED <<impl, settings, args, callerStates, nativeStates, aliased, si, ci, mi,
                   instantiated, mode, runs, logged, screenStart, source_wrapped,
                   wrappedWrites, origin>>

\* application.py:77-87 and __init__.py:71-77: the state table is handed to the
\* ConversationHandler, which is added to the native application.  The error
\* and job-queue handlers registered just before go to the native application
\* and leave the state table alone.
InstallConversation ==
    /\ pc = "states"
    /\ si > Len(args.states)
    /\ installed' = TRUE
    /\ passTables' = Append(passTables, nativeStates)
    /\ pc' = "ready"
    /\ UNCHANGED <<impl, settings, args, callerStates, nativeStates, aliased, si, ci, mi,
                   instantiated, mode, runs, logged, screenStart, source_wrapped,
                   wrappedWrites, origin>>

\* application.py:205-219; settings.USE_WEBHOOK selects the delivery mode.
Run ==
    /\ impl = "application"
    /\ pc = "ready"
    /\ \E use_webhook \in BOOLEAN : mode' = IF use_webhook THEN "webhook" ELSE "polling"
    /\ pc' = "running"
    /\ UNCHANGED <<impl, settings, args, callerStates, nativeStates, aliased, si, ci, mi,
                   instantiated, installed, runs, logged, screenStart, passTables,
                   source_wrapped, wrappedWrites, origin>>

\* __init__.py:124-127.
LegacyRun ==
    /\ impl = "legacy"
    /\ pc = "ready"
    /\ mode' = "polling"
    /\ pc' = "running"
    /\ UNCHANGED <<impl, settings, args, callerStates, nativeStates, aliased, si, ci, mi,
                   instantiated, installed, runs, logged, screenStart, passTables,
                   source_wrapped, wrappedWrites, origin>>

\* The caller constructs another Application from the same arguments; the
\* native_states object it passes is the one the first construction was given.
\* A non-empty one will be the new object's table, an empty one is replaced
\* by a fresh {}.
NewApplication ==
    /\ pc = "ready"
    /\ runs < MaxRuns
    /\ runs' = runs + 1
    /\ pc' = "new"
    /\ nativeStates' = EmptyTable
    /\ aliased' = FALSE
    /\ installed' = FALSE
    /\ origin' = IF callerStates # EmptyTable THEN origin ELSE EmptyTable
    /\ si' = 0 /\ ci' = 0 /\ mi' = 0
    /\ UNCHANGED <<impl, settings, args, callerStates, instantiated, mode, logged,
                   screenStart, passTables, source_wrapped, wrappedWrites>>

Next ==
    \/ Construct
    \/ RegisterState
    \/ InstantiateScreen
    \/ RegisterMember
    \/ RegisterButton
    \/ NextScreen
    \/ ReturnFromRegister
    \/ InstallConversation
    \/ Run
    \/ LegacyRun
    \/ NewApplication

Spec == Init /\ [][Next]_vars

(***************************************************************************)
(* Properties.                                                             *)
(***************************************************************************)
Constructed == pc \in {"ready", "running"}

DeclaredStates == {args.states[i].state : i \in DOMAIN args.states}

ListOf(table, s) == IF s \in DOMAIN table THEN table[s] ELSE << >>

\* C1: once construction has completed, every state that is a key of the
\* `states` mapping is a key of the state table, and its value is a list
\* (possibly empty).
C1_DeclaredStatesHaveEntries ==
    Constructed =>
        \A s \in DeclaredStates :
            /\ s \in DOMAIN nativeStates
            /\ DOMAIN nativeStates[s] = 1..Len(nativeStates[s])

\* A completed construction in which one state was declared with screens whose
\* members were all skipped and another with no screen at all; both have an
\* empty list.
C1_Witness ==
    /\ Constructed
    /\ impl = "application"
    /\ logged # << >>
    /\ \E i, j \in DOMAIN args.states :
          /\ args.states[i].screens # << >>
          /\ nativeStates[args.states[i].state] = << >>
          /\ args.states[j].screens = << >>
          /\ nativeStates[args.states[j].state] = << >>

\* Number of times state s occurs in the route states of routes.
RECURSIVE Occurrences(_, _)
Occurrences(routes, s) ==
    IF routes = << >> THEN 0
    ELSE Cardinality({k \in DOMAIN Head(routes).states : Head(routes).states[k] = s})
         + Occurrences(Tail(routes), s)

Repeat(object, n) == [k \in 1..n |-> object]

\* A step of the member loop that registers a member named sgoto or sjump.
RouteMemberRegistered ==
    /\ impl = "application"
    /\ pc = "members"
    /\ mi <= Len(Members)
    /\ possible_handler.name \in route_handlers
    /\ mi' = mi + 1

\* C2: when a member named sgoto or sjump is registered for declaring state A,
\* its handler object is appended to the list of every route state, once per
\* occurrence in the routes, and to A's list only as far as A is a route
\* state; with empty routes it is appended once, to A's list only.
C2_RouteFanOut ==
    [][RouteMemberRegistered =>
        LET routes == ScreenClass(Screen).routes
            A == Item.state
            object == GetHandlerObject(settings.PERMISSIONS, possible_handler,
                                       possible_handler.handler_type, possible_handler).object
            times(s) == IF routes # << >> THEN Occurrences(routes, s)
                        ELSE IF s = A THEN 1 ELSE 0
        IN \A s \in StateIds :
              IF times(s) > 0
              THEN /\ s \in DOMAIN nativeStates'
                   /\ nativeStates'[s] = ListOf(nativeStates, s) \o Repeat(object, times(s))
              ELSE /\ (s \in DOMAIN nativeStates') = (s \in DOMAIN nativeStates)
                   /\ ListOf(nativeStates', s) = ListOf(nativeStates, s)]_vars

\* The route member of a screen declared at state 1 with routes over states 2
\* and 3 has just been registered: state 3 holds it twice, state 1 not at all.
C2_Witness ==
    /\ impl = "application"
    /\ pc = "members"
    /\ mi > 1
    /\ Members[mi - 1].name \in route_handlers
    /\ ScreenClass(Screen).routes # << >>
    /\ Item.state = 1
    /\ 3 \in DOMAIN nativeStates
    /\ Len(nativeStates[3]) >= 2
    /\ \A k \in DOMAIN nativeStates[1] :
          nativeStates[1][k].callback.handler # Identity(Bound(Screen, Members[mi - 1]))

\* C10: with an empty settings.TOKEN, construction raises TokenIsNotSpecified
\* before any other step: no screen is instantiated, nothing is registered or
\* logged, the caller's native_states mapping is unchanged, nothing is
\* installed and the application never gets ready to run.
C10_NoTokenNoConstruction ==
    ~settings.TOKEN =>
        /\ pc \in {"new", "token_failed"}
        /\ instantiated = 0
        /\ nativeStates = EmptyTable
        /\ callerStates = args.native_states
        /\ logged = << >>
        /\ ~installed
        /\ mode = "none"

\* TokenIsNotSpecified was raised for a caller who passed states with screens
\* and a non-empty native_states mapping.
C10_Witness ==
    /\ pc = "token_failed"
    /\ \E i \in DOMAIN args.states : args.states[i].screens # << >>
    /\ args.native_states # EmptyTable

\* The handler objects in the state table.
Entries ==
    UNION {{nativeStates[s][k] : k \in DOMAIN nativeStates[s]} : s \in DOMAIN nativeStates}
RegisteredEntries == Entries \ {NativeEntry}

\* The member of a screen class a handler identity names.
HandlerOf(id) ==
    Bound(id.cls, CHOOSE m \in {Dir(id.cls)[k] : k \in DOMAIN Dir(id.cls)} : m.name = id.name)

\* C3: the callable of every handler object that registration appends, whatever
\* the member's handler type, is the permission-wrapped handler.
C3_EveryCallablePermissionWrapped ==
    impl = "application" =>
        \A e \in RegisteredEntries :
            e.callback = ApplyPermissionTo(settings.PERMISSIONS, HandlerOf(e.callback.handler))

\* C4: the callable registered for a button is the source wrapped by every
\* configured policy that is not in permissions_ignored, composed in the
\* configured order, and by no ignored policy.
C4_ButtonWrappedByEveryPolicy ==
    (/\ impl = "legacy"
     /\ pc = "members"
     /\ mi > 1
     /\ LegacyButtons[mi - 1].source_type \in {GOTO_SOURCE_TYPE, HANDLER_SOURCE_TYPE}) =>
        LET button == LegacyButtons[mi - 1]
            list == nativeStates[Item.state]
        IN list[Len(list)].callback =
              FoldPermissions(settings.PERMISSIONS, button.source.permissions_ignored,
                              Raw(SourceOf(button)))

KnownTypes == {BUTTON_HANDLER, COMMAND_HANDLER, INPUT_HANDLER, TYPING_HANDLER}

\* The member carries a handler_type that is neither a HandlerType nor unset.
UnknownTag(m) == m.handler_type \notin KnownTypes \cup {UNSET}

\* C5 as stated: a member with an unknown handler_type, whatever its name, makes
\* the registration of its screen fail: the member loop never gets past such a
\* member, and no construction completes with a screen that has one.
C5_AnyUnknownTagFails ==
    impl = "application" =>
        /\ pc = "members" =>
              \A k \in DOMAIN Members : k < mi => ~UnknownTag(Members[k])
        /\ Constructed =>
              \A i \in DOMAIN args.states : \A j \in DOMAIN args.states[i].screens :
                  \A k \in DOMAIN Dir(args.states[i].screens[j]) :
                      ~UnknownTag(Dir(args.states[i].screens[j])[k])

\* C5 amended: a member with an unknown handler_type whose name is a reserved
\* action name makes the registration of its screen fail: the member loop
\* never gets past such a member, and no construction completes with a screen
\* that has one.
C5_ReservedUnknownTagFails ==
    impl = "application" =>
        /\ pc = "members" =>
              \A k \in DOMAIN Members :
                  k < mi => ~(Members[k].name \in builtin_handlers /\ UnknownTag(Members[k]))
        /\ Constructed =>
              \A i \in DOMAIN args.states : \A j \in DOMAIN args.states[i].screens :
                  \A k \in DOMAIN Dir(args.states[i].screens[j]) :
                      LET m == Dir(args.states[i].screens[j])[k]
                      IN ~(m.name \in builtin_handlers /\ UnknownTag(m))

\* UnknownHandlerType was raised at a reserved member with an unknown tag.
C5_Witness ==
    /\ impl = "application"
    /\ pc = "unknown_type_failed"
    /\ possible_handler.name \in builtin_handlers
    /\ UnknownTag(possible_handler)

\* C6: when registration fails with UnknownHandlerType, the state table is what
\* it was before the first member of the failing screen was processed.
C6_NoPartialMutation ==
    pc = "unknown_type_failed" => nativeStates = screenStart

\* Text messages that may come in.
InboundTexts ==
    {<<"/", "h", "i">>, <<"/", "h", "i", "t">>, <<"/", "h", "i", " ", "t">>,
     <<"/", "h">>, <<"h", "i">>, <<"/", "i", "t">>}

\* C7: the rule built for a COMMAND member with command_name c accepts the
\* message '/' + c and rejects every command message whose command name has c
\* as a proper prefix.
C7_CommandMatchesExactName ==
    \A e \in RegisteredEntries :
        e.pattern.type = "command_regex" =>
            LET c == e.pattern.command
            IN /\ Accepts(e.pattern, <<"/">> \o c)
               /\ \A t \in InboundTexts :
                     (FiltersCommand(t) /\ IsPrefix(c, CommandName(t)) /\ CommandName(t) # c)
                        => ~Accepts(e.pattern, t)

\* C8: a second registration of the same single (state, screens) item on the
\* same state table leaves every list as the first registration left it.
C8_SecondRegistrationAddsNothing ==
    (/\ runs >= 2
     /\ pc = "ready"
     /\ aliased
     /\ Len(args.states) = 1) =>
        nativeStates = passTables[runs - 1]

\* C9: construction never completes with two handler objects of different
\* handlers that carry the same checksum pattern.
C9_NoChecksumCollisionRegistered ==
    (impl = "application" /\ Constructed) =>
        \A e1, e2 \in RegisteredEntries :
            (/\ e1.pattern.type = "checksum"
             /\ e2.pattern.type = "checksum"
             /\ e1.callback.handler # e2.callback.handler) =>
                e1.pattern.checksum # e2.pattern.checksum

(***************************************************************************)
(* The order of the entries within one state's list.                       *)
(***************************************************************************)
\* a comes before b in the lexicographic order of tuples of equal length.
LexLess(a, b) ==
    \E i \in DOMAIN a : a[i] < b[i] /\ \A j \in 1..(i - 1) : a[j] = b[j]

ScreenKey(o) == <<o.ci, o.mi>>
DeclaredKey(o) == <<o.run, o.si, o.ci, o.mi>>

\* C11: of two entries of one state's list that the registration of one
\* Application appended, none stands behind an entry whose (screen index,
\* member index) is lexicographically greater than its own.
C11_OrderedByScreenAndMember ==
    \A s \in DOMAIN nativeStates :
        \A a, b \in DOMAIN nativeStates[s] :
            (a < b /\ origin[s][a].run = runs /\ origin[s][b].run = runs)
                => ~LexLess(ScreenKey(origin[s][b]), ScreenKey(origin[s][a]))

\* C11 (amended): the entries of one state's list stand in the order of
\* (construction, position of the declaring state in states.items(), screen
\* index, member index); the caller's own entries come first.
C11_OrderedByStateScreenAndMember ==
    \A s \in DOMAIN nativeStates :
        \A a, b \in DOMAIN nativeStates[s] :
            a < b => ~LexLess(DeclaredKey(origin[s][b]), DeclaredKey(origin[s][a]))

\* A list holds two entries of one screen and, behind them, an entry that a
\* route member of a screen declared at a later state fanned into it.
C11_Witness ==
    /\ Constructed
    /\ impl = "application"
    /\ \E s \in DOMAIN nativeStates :
           \E a, b, c \in DOMAIN nativeStates[s] :
               /\ a < b /\ b < c
               /\ origin[s][a].run = runs /\ origin[s][c].run = runs
               /\ origin[s][a].si = origin[s][b].si
               /\ origin[s][a].ci = origin[s][b].ci
               /\ origin[s][a].mi < origin[s][b].mi
               /\ origin[s][b].si < origin[s][c].si
               /\ args.states[origin[s][c].si].state # s

(***************************************************************************)
(* Members that are no handlers.                                           *)
(***************************************************************************)
ReservedNames == {"start", "goto", "jump", "sgoto", "sjump"}

\* The member is neither reserved by name nor tagged with a recognized type.
NoHandlerMember(m) == m.name \notin ReservedNames /\ m.handler_type \notin KnownTypes

RECURSIVE RouteStateCount(_)
RouteStateCount(routes) ==
    IF routes = << >> THEN 0 ELSE Len(Head(routes).states) + RouteStateCount(Tail(routes))

\* The entries one member of a screen class adds to the state table.
EntriesOfMember(c, m) ==
    IF NoHandlerMember(m) THEN 0
    ELSE IF m.name \in route_handlers /\ ScreenClass(c).routes # << >>
    THEN RouteStateCount(ScreenClass(c).routes)
    ELSE 1

RECURSIVE EntriesOfMembers(_, _)
EntriesOfMembers(c, ms) ==
    IF ms = << >> THEN 0 ELSE EntriesOfMember(c, Head(ms)) + EntriesOfMembers(c, Tail(ms))

RECURSIVE Total(_, _)
Total(f, S) ==
    IF S = {} THEN 0 ELSE LET x == CHOOSE x \in S : TRUE IN f[x] + Total(f, S \ {x})

\* The entries of the state table appended while the loops stood at the
\* current screen.
ContributedByScreen ==
    Total([s \in DOMAIN nativeStates |->
              Cardinality({k \in DOMAIN nativeStates[s] :
                              /\ origin[s][k].run = runs
                              /\ origin[s][k].si = si
                              /\ origin[s][k].ci = ci})],
          DOMAIN nativeStates)

AtUnqualifiedMember ==
    /\ impl = "application"
    /\ pc = "members"
    /\ mi <= Len(Members)
    /\ NoHandlerMember(possible_handler)

\* C12: a member that is neither reserved by name nor tagged with a recognized
\* handler_type is handed to log_unregistered_handler, leaves the state table
\* as it is and lets the loop go on to the next member; at every point of the
\* loop the screen has contributed as many entries as the members passed so
\* far account for, a fanned-out route member counting once per route state
\* occurrence and a skipped member not at all.
C12_SkippedMemberLoggedAndPassed ==
    /\ []((impl = "application" /\ pc = "members")
            => ContributedByScreen = EntriesOfMembers(Screen, SubSeq(Members, 1, mi - 1)))
    /\ [][AtUnqualifiedMember =>
             /\ logged' = Append(logged, Identity(possible_handler))
             /\ nativeStates' = nativeStates
             /\ callerStates' = callerStates
             /\ pc' = "members"
             /\ mi' = mi + 1]_vars

\* A screen is through: a member was skipped and a member after it, a
\* fanned-out route member, was registered.
C12_Witness ==
    /\ impl = "application"
    /\ pc = "members"
    /\ mi > Len(Members)
    /\ logged # << >>
    /\ \E i, j \in DOMAIN Members :
           /\ i < j
           /\ NoHandlerMember(Members[i])
           /\ EntriesOfMember(Screen, Members[j]) > 1
    /\ ContributedByScreen > 2

(***************************************************************************)
(* Callback-query entries.                                                 *)
(***************************************************************************)
\* The bound member whose registration appended the entry of origin o.
MemberAt(o) ==
    LET c == args.states[o.si].screens[o.ci]
    IN Bound(c, Dir(c)[o.mi])

ButtonLike(h) ==
    \/ h.handler_type = BUTTON_HANDLER
    \/ h.name \in ReservedNames /\ h.handler_type = UNSET

\* C13: the entry built for a BUTTON member, or for a reserved-name member
\* without a handler_type tag, is a callback-query entry; its pattern is the
\* checksum of the member itself, whatever settings.PERMISSIONS holds, and its
\* callable is the member wrapped by apply_permission_to.
C13_CallbackPatternOfUnwrappedHandler ==
    impl = "application" =>
        \A s \in DOMAIN nativeStates :
            \A k \in DOMAIN nativeStates[s] :
                (origin[s][k].run > 0 /\ ButtonLike(MemberAt(origin[s][k]))) =>
                    LET h == MemberAt(origin[s][k])
                        e == nativeStates[s][k]
                    IN /\ e.kind = "CallbackQueryHandler"
                       /\ e.pattern = Rule("checksum", CalcChecksum(Identity(h)), NoText, "")
                       /\ e.callback = ApplyPermissionTo(settings.PERMISSIONS, h)

\* Policies are configured; a BUTTON entry and an entry of an untagged
\* reserved member are registered, one of them wrapped by a policy.
C13_Witness ==
    /\ impl = "application"
    /\ Constructed
    /\ settings.PERMISSIONS # << >>
    /\ \E s, t \in DOMAIN nativeStates :
           \E k \in DOMAIN nativeStates[s], l \in DOMAIN nativeStates[t] :
               /\ origin[s][k].run > 0 /\ origin[t][l].run > 0
               /\ MemberAt(origin[s][k]).handler_type = BUTTON_HANDLER
               /\ nativeStates[s][k].callback.wraps # << >>
               /\ MemberAt(origin[t][l]).handler_type = UNSET

(***************************************************************************)
(* The state table and the ConversationHandler.                            *)
(***************************************************************************)
\* C14: a step that changes the state table of an Application is taken while
\* its ConversationHandler is not yet added to the native application, and
\* the step of run(), in either delivery mode, leaves the table, and the
\* caller's mapping behind it, as they are.
C14_TableBuiltBeforeInstalled ==
    [][/\ (runs' = runs /\ nativeStates' # nativeStates) => (~installed /\ ~installed')
       /\ (pc = "ready" /\ pc' = "running") =>
              (nativeStates' = nativeStates /\ callerStates' = callerStates)]_vars

\* run() chose the webhook for an Application whose table holds entries of
\* the registration.
C14_Witness ==
    /\ pc = "running"
    /\ mode = "webhook"
    /\ installed
    /\ RegisteredEntries # {}

(***************************************************************************)
(* The source_wrapped slot of a button.                                    *)
(***************************************************************************)
\* C15: while one button is registered, the permission loop assigns to the
\* button's source_wrapped slot, empty when the loop starts, at most once,
\* whatever settings.PERMISSIONS and the source's permissions_ignored hold.
C15_SourceWrappedWrittenAtMostOnce ==
    impl = "legacy" => wrappedWrites <= 1

(***************************************************************************)
(* Growth of the state table.                                              *)
(***************************************************************************)
\* Every key of old is a key of new, and its list a prefix of the new list.
Extends(new, old) ==
    \A s \in DOMAIN old : s \in DOMAIN new /\ IsPrefix(old[s], new[s])

\* C16: every step of the construction of an Application leaves each state's
\* list of its table a prefix of the list after the step and drops no key; the
\* same holds for the caller's mapping at every step, and the lists the
\* caller supplied in native_states are prefixes of the lists of the table.
C16_RegistrationOnlyGrows ==
    [][/\ runs' = runs => Extends(nativeStates', nativeStates)
       /\ Extends(callerStates', callerStates)
       /\ pc' \notin {"new", "token_failed"} => Extends(nativeStates', args.native_states)]_vars

\* The construction is through; the caller's entry stands at the head of its
\* state's list, in front of an entry of the registration.
C16_Witness ==
    /\ Constructed
    /\ aliased
    /\ 1 \in DOMAIN nativeStates
    /\ Len(nativeStates[1]) >= 2
    /\ nativeStates[1][1] = NativeEntry
    /\ origin[1][1] = NoOrigin
    /\ origin[1][2].run = runs

(***************************************************************************)
(* The keyboard-based registration.                                        *)
(***************************************************************************)
Keyboard == ScreenClass(Screen).keyboard
Positions == UNION {{<<r, c>> : c \in DOMAIN Keyboard[r]} : r \in DOMAIN Keyboard}
ButtonAt(p) == Keyboard[p[1]][p[2]]
Registrable(p) == ButtonAt(p).source_type \in {GOTO_SOURCE_TYPE, HANDLER_SOURCE_TYPE}

\* The GOTO and HANDLER buttons up to position p, rows first.
RowMajorRank(p) ==
    Cardinality({q \in Positions :
                    /\ Registrable(q)
                    /\ q[1] < p[1] \/ (q[1] = p[1] /\ q[2] <= p[2])})

\* C17: when the keyboard of a screen is through, the list of the declaring
\* state is what it was before the screen, followed by one callback entry per
\* GOTO or HANDLER button in row-major order, built from the button's source;
\* the other buttons add nothing, and no other state's list has changed.
C17_OneEntryPerGotoOrHandlerButton ==
    (impl = "legacy" /\ pc = "members" /\ mi > Len(LegacyButtons)) =>
        LET before == screenStart[Item.state]
            list == nativeStates[Item.state]
        IN /\ IsPrefix(before, list)
           /\ Len(list) = Len(before) + Cardinality({p \in Positions : Registrable(p)})
           /\ \A p \in Positions :
                  Registrable(p) =>
                      LET e == list[Len(before) + RowMajorRank(p)]
                      IN /\ e.kind = "CallbackQueryHandler"
                         /\ e.pattern = PayloadPattern(SourceOf(ButtonAt(p)))
                         /\ e.callback.handler = Identity(SourceOf(ButtonAt(p)))
           /\ \A s \in DOMAIN nativeStates \ {Item.state} :
                  s \in DOMAIN screenStart /\ nativeStates[s] = screenStart[s]

\* The keyboard of a screen is through that has a button of another source
\* type ahead of a GOTO or HANDLER button, and two registered buttons in
\* different rows.
C17_Witness ==
    /\ impl = "legacy"
    /\ pc = "members"
    /\ mi > Len(LegacyButtons)
    /\ \E p, q, r \in Positions :
           /\ Registrable(p) /\ ~Registrable(q) /\ Registrable(r)
           /\ RowMajorRank(p) = 1 /\ RowMajorRank(q) = 1 /\ RowMajorRank(r) = 2
           /\ p[1] < r[1]
    /\ Len(nativeStates[Item.state]) = Len(screenStart[Item.state]) + 2
====
